---- MODULE Spec2Model ----
(***************************************************************************)
(* Model of src/time_to_merge.py: measure_time_to_merge, the aggregation   *)
(* loop of main, and generate_report.                                      *)
(*                                                                         *)
(* A datetime is an integer number of microseconds on a bounded axis, a    *)
(* timedelta is an integer number of microseconds (timedelta's resolution).*)
(* A value that may be None is a sequence of length at most one: <<>> is   *)
(* None and <<v>> is the value v.                                          *)
(***************************************************************************)
EXTENDS Integers, Sequences, FiniteSets

VARIABLES pc, gh, pull_requests, prs_with_metrics, total_time_to_merge,
          count, average_time_to_merge, total_open_prs, file, call, returned

vars == <<pc, gh, pull_requests, prs_with_metrics, total_time_to_merge,
          count, average_time_to_merge, total_open_prs, file, call, returned>>

(* Bounds of the model. *)
MaxPRs == 2
MaxTime == 1

None == <<>>
Some(v) == <<v>>
Val(o) == o[1]

Timestamps == 0 .. MaxTime
OptTimestamps == {None} \cup {Some(t) : t \in Timestamps}

(* A github3 pull request as the program reads it: number, created_at,     *)
(* updated_at, merged_at (None when the pull request was not merged) and   *)
(* draft. The service never reports updated_at before created_at.          *)
PullRequestFields ==
    { f \in [created_at : Timestamps, updated_at : Timestamps,
             merged_at : OptTimestamps, draft : BOOLEAN] :
        f.created_at <= f.updated_at }

PullRequest(n, f) ==
    [number |-> n, created_at |-> f.created_at, updated_at |-> f.updated_at,
     merged_at |-> f.merged_at, draft |-> f.draft]

PullRequests == { PullRequest(n, f) : n \in 1 .. MaxPRs, f \in PullRequestFields }

(* Pull request numbers are unique within a repository: the numbers the   *)
(* iterator has not yielded yet.                                           *)
UnusedNumbers(prs) == (1 .. MaxPRs) \ { prs[k].number : k \in 1 .. Len(prs) }

(* The count attribute of the open pull-request iterator. *)
OpenCounts == {-1, 3}

(* Variant: a datetime at the origin of the axis counts as false. *)
TruthyDatetimeZeroFalse(o) == o # None /\ Val(o) # 0

(* Truth value of a datetime-or-None: every datetime is true. *)
TruthyDatetime(o) == o # None

(* Variant: only a positive timedelta counts as true. *)
TruthyTimedeltaPositive(o) == o # None /\ Val(o) > 0

(* Truth value of a timedelta-or-None: timedelta(0) is false. *)
TruthyTimedelta(o) == o # None /\ Val(o) # 0

(* Variant: merged_at is tested for truth, with the origin counting as     *)
(* false, instead of being compared with None.                             *)
measure_time_to_merge_falsy(pull_request, ready_for_review_at) ==
    IF pull_request.merged_at = None \/ Val(pull_request.merged_at) = 0
    THEN None
    ELSE IF TruthyDatetime(ready_for_review_at)
         THEN Some(Val(pull_request.merged_at) - Val(ready_for_review_at))
         ELSE Some(Val(pull_request.merged_at) - pull_request.created_at)

measure_time_to_merge(pull_request, ready_for_review_at) ==
    IF pull_request.merged_at = None
    THEN None
    ELSE IF TruthyDatetime(ready_for_review_at)
         THEN Some(Val(pull_request.merged_at) - Val(ready_for_review_at))
         ELSE Some(Val(pull_request.merged_at) - pull_request.created_at)

(* Variant: the two branches of line 79 exchanged. *)
ReadyForReviewAtSwapped(pr) == IF pr.draft THEN pr.created_at ELSE pr.updated_at

(* ready_for_review_at of line 79. *)
ReadyForReviewAt(pr) == IF ~pr.draft THEN pr.created_at ELSE pr.updated_at

(* The dict appended at lines 82-87. *)
PrMetric(pr, ready_for_review_at, time_to_merge) ==
    [pr |-> pr.number, ready_for_review_at |-> ready_for_review_at,
     merged_at |-> pr.merged_at, time_to_merge |-> time_to_merge]

(* timedelta / int: the quotient in microseconds rounded to nearest, ties  *)
(* to even.                                                                *)
DivideAndRound(a, b) ==
    LET q == a \div b
        r == a % b
    IN  IF 2 * r > b \/ (2 * r = b /\ q % 2 = 1) THEN q + 1 ELSE q

(* Line 91. *)
AverageTimeToMerge(total, n) == IF n > 0 THEN DivideAndRound(total, n) ELSE 0

(* The lines generate_report writes, in order. *)
RowLine(pr_metric) ==
    [kind |-> "row", pr |-> pr_metric.pr,
     ready_for_review_at |-> pr_metric.ready_for_review_at,
     merged_at |-> pr_metric.merged_at, time_to_merge |-> pr_metric.time_to_merge]

ReportLines(metrics, average, open, n) ==
    << [kind |-> "title"], [kind |-> "header"], [kind |-> "separator"] >>
    \o [k \in 1 .. Len(metrics) |-> RowLine(metrics[k])]
    \o << [kind |-> "average", value |-> average],
          [kind |-> "open", value |-> open],
          [kind |-> "closed", value |-> n] >>

(* Content of pr_metrics.md left by an earlier run. *)
PreviousReport == << [kind |-> "previous"] >>

Locals0 ==
    /\ gh = "unset"
    /\ pull_requests = << >>
    /\ prs_with_metrics = << >>
    /\ total_time_to_merge = 0
    /\ count = 0
    /\ average_time_to_merge = 0
    /\ total_open_prs = 0

Init ==
    /\ pc = "login"
    /\ Locals0
    /\ file = PreviousReport
    /\ call = None
    /\ returned = None

(* Variant: the report is written from whatever was gathered before the    *)
(* exception leaves main.                                                  *)
AbortWritingReport ==
    /\ pc' = "aborted"
    /\ gh' = "unset"
    /\ pull_requests' = << >>
    /\ prs_with_metrics' = << >>
    /\ total_time_to_merge' = 0
    /\ count' = 0
    /\ average_time_to_merge' = 0
    /\ total_open_prs' = 0
    /\ file' = ReportLines(prs_with_metrics, average_time_to_merge, total_open_prs, count)
    /\ UNCHANGED <<call, returned>>

(* An unhandled exception unwinds main: its locals are gone, the process   *)
(* exits non-zero, the file is as it was.                                  *)
Abort ==
    /\ pc' = "aborted"
    /\ gh' = "unset"
    /\ pull_requests' = << >>
    /\ prs_with_metrics' = << >>
    /\ total_time_to_merge' = 0
    /\ count' = 0
    /\ average_time_to_merge' = 0
    /\ total_open_prs' = 0
    /\ UNCHANGED <<file, call, returned>>

(* Line 70: github3.login returns None when no token is set. *)
Login ==
    /\ pc = "login"
    /\ \E g \in {"session", "None"} : gh' = g
    /\ pc' = "repository"
    /\ UNCHANGED <<pull_requests, prs_with_metrics, total_time_to_merge, count,
                   average_time_to_merge, total_open_prs, file, call, returned>>

(* Line 71. *)
Repository ==
    /\ pc = "repository"
    /\ gh = "session"
    /\ pc' = "fetch"
    /\ UNCHANGED <<gh, pull_requests, prs_with_metrics, total_time_to_merge, count,
                   average_time_to_merge, total_open_prs, file, call, returned>>

(* Line 71 raising: gh is None, or the lookup fails. *)
RepositoryFails ==
    /\ pc = "repository"
    /\ Abort

(* Lines 72-76: pull_requests is a lazy iterator; the model keeps the     *)
(* records it has yielded so far, in order.                                *)
FetchPullRequests ==
    /\ pc = "fetch"
    /\ pull_requests' = << >>
    /\ prs_with_metrics' = << >>
    /\ total_time_to_merge' = 0
    /\ count' = 0
    /\ pc' = "loop"
    /\ UNCHANGED <<gh, average_time_to_merge, total_open_prs, file, call, returned>>

FetchPullRequestsFails ==
    /\ pc = "fetch"
    /\ Abort

(* Variant: count += 1 outside the if. *)
LoopBodyCountAll(pr) ==
    LET ready_for_review_at == ReadyForReviewAt(pr)
        time_to_merge == measure_time_to_merge(pr, Some(ready_for_review_at))
    IN  /\ count' = count + 1
        /\ IF TruthyTimedelta(time_to_merge)
           THEN /\ prs_with_metrics' =
                     Append(prs_with_metrics,
                            PrMetric(pr, ready_for_review_at, Val(time_to_merge)))
                /\ total_time_to_merge' = total_time_to_merge + Val(time_to_merge)
           ELSE UNCHANGED <<prs_with_metrics, total_time_to_merge>>

(* Variant: the running sum is overwritten instead of accumulated. *)
LoopBodyOverwriteSum(pr) ==
    LET ready_for_review_at == ReadyForReviewAt(pr)
        time_to_merge == measure_time_to_merge(pr, Some(ready_for_review_at))
    IN  IF TruthyTimedelta(time_to_merge)
        THEN /\ prs_with_metrics' =
                  Append(prs_with_metrics,
                         PrMetric(pr, ready_for_review_at, Val(time_to_merge)))
             /\ total_time_to_merge' = Val(time_to_merge)
             /\ count' = count + 1
        ELSE UNCHANGED <<prs_with_metrics, total_time_to_merge, count>>

(* Variant: the new entry is inserted at the front of prs_with_metrics. *)
LoopBodyPrepend(pr) ==
    LET ready_for_review_at == ReadyForReviewAt(pr)
        time_to_merge == measure_time_to_merge(pr, Some(ready_for_review_at))
    IN  IF TruthyTimedelta(time_to_merge)
        THEN /\ prs_with_metrics' =
                  << PrMetric(pr, ready_for_review_at, Val(time_to_merge)) >>
                  \o prs_with_metrics
             /\ total_time_to_merge' = total_time_to_merge + Val(time_to_merge)
             /\ count' = count + 1
        ELSE UNCHANGED <<prs_with_metrics, total_time_to_merge, count>>

(* Lines 79-89: the body of the loop for the record pr. *)
LoopBody(pr) ==
    LET ready_for_review_at == ReadyForReviewAt(pr)
        time_to_merge == measure_time_to_merge(pr, Some(ready_for_review_at))
    IN  IF TruthyTimedelta(time_to_merge)
        THEN /\ prs_with_metrics' =
                  Append(prs_with_metrics,
                         PrMetric(pr, ready_for_review_at, Val(time_to_merge)))
             /\ total_time_to_merge' = total_time_to_merge + Val(time_to_merge)
             /\ count' = count + 1
        ELSE UNCHANGED <<prs_with_metrics, total_time_to_merge, count>>

(* Lines 78-89: the iterator yields the next closed pull request and the   *)
(* body runs for it.                                                       *)
LoopIteration ==
    /\ pc = "loop"
    /\ \E n \in UnusedNumbers(pull_requests), f \in PullRequestFields :
          LET pr == PullRequest(n, f)
          IN  /\ pull_requests' = Append(pull_requests, pr)
              /\ LoopBody(pr)
    /\ UNCHANGED <<pc, gh, average_time_to_merge, total_open_prs,
                   file, call, returned>>

(* The iterator raising while it fetches the next page. *)
LoopIterationFails ==
    /\ pc = "loop"
    /\ Abort

(* The iterator is exhausted; line 91. *)
ComputeAverage ==
    /\ pc = "loop"
    /\ average_time_to_merge' = AverageTimeToMerge(total_time_to_merge, count)
    /\ pc' = "open"
    /\ UNCHANGED <<gh, pull_requests, prs_with_metrics, total_time_to_merge, count,
                   total_open_prs, file, call, returned>>

(* Line 92. *)
OpenPullRequests ==
    /\ pc = "open"
    /\ \E n \in OpenCounts : total_open_prs' = n
    /\ pc' = "report"
    /\ UNCHANGED <<gh, pull_requests, prs_with_metrics, total_time_to_merge, count,
                   average_time_to_merge, file, call, returned>>

OpenPullRequestsFails ==
    /\ pc = "open"
    /\ Abort

(* Line 93 and generate_report, lines 53-63. *)
GenerateReport ==
    /\ pc = "report"
    /\ file' = ReportLines(prs_with_metrics, average_time_to_merge, total_open_prs, count)
    /\ pc' = "done"
    /\ UNCHANGED <<gh, pull_requests, prs_with_metrics, total_time_to_merge, count,
                   average_time_to_merge, total_open_prs, call, returned>>

Next ==
    \/ Login
    \/ Repository
    \/ RepositoryFails
    \/ FetchPullRequests
    \/ FetchPullRequestsFails
    \/ LoopIteration
    \/ LoopIterationFails
    \/ ComputeAverage
    \/ OpenPullRequests
    \/ OpenPullRequestsFails
    \/ GenerateReport

Spec == Init /\ [][Next]_vars

(***************************************************************************)
(* measure_time_to_merge on its own: one call with arbitrary arguments.    *)
(***************************************************************************)
InitMeasure ==
    /\ pc = "call"
    /\ Locals0
    /\ file = PreviousReport
    /\ \E pr \in PullRequests, r \in OptTimestamps :
          call = Some([pull_request |-> pr, ready_for_review_at |-> r])
    /\ returned = None

Measure ==
    /\ pc = "call"
    /\ returned' = Some(measure_time_to_merge(Val(call).pull_request,
                                              Val(call).ready_for_review_at))
    /\ pc' = "returned"
    /\ UNCHANGED <<gh, pull_requests, prs_with_metrics, total_time_to_merge, count,
                   average_time_to_merge, total_open_prs, file, call>>

NextMeasure == Measure

SpecMeasure == InitMeasure /\ [][NextMeasure]_vars

(***************************************************************************)
(* Quantities the properties below are stated in, computed from the       *)
(* records the loop has consumed and not from the loop's accumulators.     *)
(***************************************************************************)
IsMerged(pr) == pr.merged_at # None

(* The ready-for-review timestamp of a record: its creation time unless it *)
(* is a draft, then its last update.                                       *)
ExpectedReady(pr) == IF pr.draft THEN pr.updated_at ELSE pr.created_at

ExpectedDuration(pr) == Val(pr.merged_at) - ExpectedReady(pr)

MergedOf(prs) == SelectSeq(prs, IsMerged)

RECURSIVE SumDurations(_)
SumDurations(prs) ==
    IF prs = << >> THEN 0
    ELSE ExpectedDuration(Head(prs)) + SumDurations(Tail(prs))

RECURSIVE SumTimeToMerge(_)
SumTimeToMerge(metrics) ==
    IF metrics = << >> THEN 0
    ELSE Head(metrics).time_to_merge + SumTimeToMerge(Tail(metrics))

IsRowLine(line) == line.kind = "row"
FileRows == SelectSeq(file, IsRowLine)

(* Position in the consumed sequence of the record numbered n. *)
PositionOf(n) == CHOOSE k \in 1 .. Len(pull_requests) : pull_requests[k].number = n

LoopExhausted == pc \in {"open", "report", "done"}

(* C1: the number of rows of the report (entries of prs_with_metrics, and  *)
(* row lines written to the file) equals the number of consumed records    *)
(* whose merged_at is present.                                             *)
C1_RowCountEqualsMerged ==
    /\ Len(prs_with_metrics) = Len(MergedOf(pull_requests))
    /\ pc = "done" => Len(FileRows) = Len(MergedOf(pull_requests))

(* C2: once the loop has consumed the whole sequence and at least one      *)
(* record is merged, average_time_to_merge is the sum of merged_at minus   *)
(* ready-for-review over the merged records divided by their number.       *)
C2_AverageOverMerged ==
    (LoopExhausted /\ Len(MergedOf(pull_requests)) > 0) =>
        average_time_to_merge =
            DivideAndRound(SumDurations(MergedOf(pull_requests)),
                           Len(MergedOf(pull_requests)))

(* C3: for a merged pull request measure_time_to_merge returns merged_at   *)
(* minus ready_for_review_at when that is supplied, negative or zero       *)
(* included, and merged_at minus created_at when it is None.               *)
C3_MeasureDifference ==
    (pc = "returned" /\ IsMerged(Val(call).pull_request)) =>
        LET pr == Val(call).pull_request
            ready == Val(call).ready_for_review_at
        IN  Val(returned) =
                IF ready # None
                THEN Some(Val(pr.merged_at) - Val(ready))
                ELSE Some(Val(pr.merged_at) - pr.created_at)

C3_Witness ==
    /\ pc = "returned"
    /\ IsMerged(Val(call).pull_request)
    /\ Val(call).ready_for_review_at # None
    /\ Val(call).pull_request.created_at # Val(Val(call).ready_for_review_at)
    /\ Val(Val(returned)) < 0

(* C4: measure_time_to_merge returns None exactly when merged_at is        *)
(* absent, whatever created_at and ready_for_review_at are.                *)
C4_NoneIffNotMerged ==
    pc = "returned" =>
        (Val(returned) = None <=> ~IsMerged(Val(call).pull_request))

C4_Witness ==
    /\ pc = "returned"
    /\ Val(call).pull_request.merged_at = Some(0)
    /\ Val(call).ready_for_review_at # None
    /\ Val(returned) # None

(* C5: every row the loop has produced belongs to a consumed record, has   *)
(* ready_for_review_at equal to that record's updated_at when it is a      *)
(* draft and its created_at when not, merged_at equal to the record's, and *)
(* time_to_merge equal to merged_at minus that ready_for_review_at.        *)
C5_RowFields ==
    \A j \in 1 .. Len(prs_with_metrics) :
        LET row == prs_with_metrics[j]
        IN  \E k \in 1 .. Len(pull_requests) :
                LET pr == pull_requests[k]
                IN  /\ row.pr = pr.number
                    /\ row.ready_for_review_at =
                           (IF pr.draft THEN pr.updated_at ELSE pr.created_at)
                    /\ row.merged_at = pr.merged_at
                    /\ IsMerged(pr)
                    /\ row.time_to_merge =
                           Val(pr.merged_at) - row.ready_for_review_at

C5_Witness ==
    /\ Len(prs_with_metrics) = 2
    /\ \E k \in 1 .. 2 :
          /\ pull_requests[k].draft
          /\ pull_requests[k].created_at # pull_requests[k].updated_at
          /\ \E j \in 1 .. 2 :
                /\ prs_with_metrics[j].pr = pull_requests[k].number
                /\ prs_with_metrics[j].ready_for_review_at = pull_requests[k].updated_at
    /\ \E k \in 1 .. 2 :
          /\ ~pull_requests[k].draft
          /\ pull_requests[k].created_at # pull_requests[k].updated_at
          /\ \E j \in 1 .. 2 :
                /\ prs_with_metrics[j].pr = pull_requests[k].number
                /\ prs_with_metrics[j].ready_for_review_at = pull_requests[k].created_at

(* C6: pr_metrics.md keeps its previous content until generate_report has  *)
(* run, and generate_report is reached only with a session, so a run that  *)
(* aborts on a failing fetch step leaves the file as it was.               *)
C6_NoReportOnFailure ==
    /\ pc # "done" => file = PreviousReport
    /\ pc \in {"report", "done"} => gh = "session"

C6_Witness == pc = "aborted" /\ file = PreviousReport

(* C7: a consumed record whose merged_at is earlier than its               *)
(* ready-for-review timestamp has a row carrying its negative duration,    *)
(* and total_time_to_merge and count are the sum and the number of the     *)
(* non-zero durations of the merged records, the negative ones included.   *)
HasNegativeDuration(pr) == IsMerged(pr) /\ ExpectedDuration(pr) < 0
HasNonZeroDuration(pr) == IsMerged(pr) /\ ExpectedDuration(pr) # 0

C7_NegativePassThrough ==
    /\ \A k \in 1 .. Len(pull_requests) :
          HasNegativeDuration(pull_requests[k]) =>
              \E j \in 1 .. Len(prs_with_metrics) :
                  /\ prs_with_metrics[j].pr = pull_requests[k].number
                  /\ prs_with_metrics[j].time_to_merge =
                         ExpectedDuration(pull_requests[k])
    /\ total_time_to_merge =
           SumDurations(SelectSeq(pull_requests, HasNonZeroDuration))
    /\ count = Len(SelectSeq(pull_requests, HasNonZeroDuration))
    /\ pc = "done" =>
          \A k \in 1 .. Len(pull_requests) :
              HasNegativeDuration(pull_requests[k]) =>
                  \E j \in 1 .. Len(FileRows) :
                      /\ FileRows[j].pr = pull_requests[k].number
                      /\ FileRows[j].time_to_merge =
                             ExpectedDuration(pull_requests[k])

C7_Witness ==
    /\ pc = "done"
    /\ \E j \in 1 .. Len(FileRows) : FileRows[j].time_to_merge < 0
    /\ total_time_to_merge < 0
    /\ average_time_to_merge < 0

(* C8: when no consumed record is merged (the empty sequence included) the *)
(* run can go on to the report: count is 0 so line 91 takes the branch     *)
(* without the division, the average is the zero duration, and the report  *)
(* is written with no row and a closed count of 0.                         *)
C8_NoMergedRecords ==
    Len(MergedOf(pull_requests)) = 0 =>
        /\ pc = "loop" => (count = 0 /\ prs_with_metrics = << >>)
        /\ LoopExhausted =>
              /\ average_time_to_merge = 0
              /\ count = 0
              /\ prs_with_metrics = << >>
        /\ pc = "done" =>
              file = ReportLines(<< >>, 0, total_open_prs, 0)

C8_Witness ==
    /\ pc = "done"
    /\ Len(pull_requests) = 2
    /\ Len(MergedOf(pull_requests)) = 0
    /\ Len(file) = 6

(* C9: the rows are in the order of their records in the consumed          *)
(* sequence, in prs_with_metrics and in the file.                          *)
C9_RowOrder ==
    /\ \A j1, j2 \in 1 .. Len(prs_with_metrics) :
          j1 < j2 =>
              PositionOf(prs_with_metrics[j1].pr) < PositionOf(prs_with_metrics[j2].pr)
    /\ pc = "done" =>
          /\ Len(FileRows) = Len(prs_with_metrics)
          /\ \A j1, j2 \in 1 .. Len(FileRows) :
                j1 < j2 => PositionOf(FileRows[j1].pr) < PositionOf(FileRows[j2].pr)
          /\ \A j \in 1 .. Len(FileRows) : file[3 + j] = FileRows[j]

C9_Witness ==
    /\ pc = "done"
    /\ Len(FileRows) = 2
    /\ FileRows[1].pr > FileRows[2].pr

(* C10: count is the length of prs_with_metrics and total_time_to_merge    *)
(* the sum of its time_to_merge fields; the closed count written equals    *)
(* the number of row lines written; an iteration that adds no row leaves   *)
(* prs_with_metrics, total_time_to_merge and count as they were.           *)
C10_Accumulators ==
    /\ count = Len(prs_with_metrics)
    /\ total_time_to_merge = SumTimeToMerge(prs_with_metrics)
    /\ pc = "done" => file[Len(file)] = [kind |-> "closed", value |-> Len(FileRows)]

C10_NoRowStep ==
    (pc = "loop" /\ pc' = "loop" /\ Len(prs_with_metrics') = Len(prs_with_metrics)) =>
        /\ prs_with_metrics' = prs_with_metrics
        /\ total_time_to_merge' = total_time_to_merge
        /\ count' = count

C10_LoopInvariant == [](C10_Accumulators) /\ [][C10_NoRowStep]_vars

C10_Witness ==
    /\ pc = "done"
    /\ Len(pull_requests) = 2
    /\ Len(prs_with_metrics) = 1
    /\ total_time_to_merge # 0

====
